---- MODULE Spec2Model ----
(***************************************************************************)
(* Just-Memory schema tools: migrate_db.py (migrate) and check_schema.py.  *)
(* The SQLite store is modelled by the part of its behaviour the two       *)
(* scripts use: the catalog of tables, each table's column descriptors and *)
(* rows, ALTER TABLE .. ADD COLUMN .. DEFAULT, commit, and the connection. *)
(***************************************************************************)
EXTENDS Integers, Sequences, FiniteSets, TLC

\* Bounds of the model.
MaxRows == 1       \* rows held by the whole store in the initial state
MaxRuns == 2       \* migrate() runs started in one behaviour
MaxRejecting == 1  \* tables on which the store refuses ADD COLUMN

VARIABLES
  disk,        \* the committed (durable) content of the store file
  connStore,   \* the store as the open connection sees it (with uncommitted changes)
  connOpen,    \* a connection was opened by the running script and close() not yet called
  rejecting,   \* tables on which the store raises on ALTER TABLE .. ADD COLUMN
  prog,        \* the script that runs or ran last: "none", "migrate", "check"
  pc,          \* position of that script
  runNo,       \* number of migrate() runs started
  tables,      \* the script's local list `tables`
  i,           \* position of the script's for loop (1-based)
  outcome,     \* per requirement, what this migrate() run printed for it
  alters,      \* the tables for which this migrate() run issued ALTER TABLE, in order
  startStore,  \* the durable store when this migrate() run started
  ended,       \* how the latest migrate() run stands: "none", "running", "done", "raised", "killed"
  prev         \* the migrate() run before this one: how it ended, what it added, what was rejected

vars == <<disk, connStore, connOpen, rejecting, prog, pc, runNo, tables, i,
          outcome, alters, startStore, ended, prev>>

----------------------------------------------------------------------------
\* The requirement list and the store's data.

tables_needing_project_id ==
  <<"memories", "entities", "edges", "scratchpad", "entity_relations">>

NReq == Len(tables_needing_project_id)

TableNames == {tables_needing_project_id[k] : k \in 1..NReq}

\* The column the ALTER TABLE statement declares: project_id TEXT DEFAULT 'global'.
ProjectIdColumn_NoDefault ==
  [name |-> "project_id", type |-> "TEXT", notnull |-> FALSE, dflt |-> "NULL"]

ProjectIdColumn ==
  [name |-> "project_id", type |-> "TEXT", notnull |-> FALSE, dflt |-> "global"]

\* A column every table of the application has.
IdColumn ==
  [name |-> "id", type |-> "TEXT", notnull |-> TRUE, dflt |-> "NULL"]

\* Values of project_id that rows written by the application hold.
ProjectValues == {"global", "p1"}

AbsentTable == [exists |-> FALSE, cols |-> <<>>, rows |-> <<>>]

Range(s) == {s[k] : k \in DOMAIN s}

ColumnSet(tbl) == {tbl.cols[k].name : k \in DOMAIN tbl.cols}

\* The k-th row of a table with columns cols; pv is its project_id if it has one.
Row(cols, k, pv) ==
  [c \in {cols[j].name : j \in DOMAIN cols} |->
     IF c = "id" THEN "r" \o ToString(k) ELSE pv]

RowSeqs(cols, n) ==
  {[k \in 1..n |-> Row(cols, k, pv[k])] : pv \in [1..n -> ProjectValues]}

\* The tables the application may have created before the tool runs.
InitTables ==
  {AbsentTable}
  \cup UNION {{[exists |-> TRUE, cols |-> <<IdColumn>>, rows |-> rs] :
                 rs \in {[k \in 1..n |-> Row(<<IdColumn>>, k, "NULL")]}} : n \in 0..MaxRows}
  \cup UNION {{[exists |-> TRUE, cols |-> <<IdColumn, ProjectIdColumn>>, rows |-> rs] :
                 rs \in RowSeqs(<<IdColumn, ProjectIdColumn>>, n)} : n \in 0..MaxRows}

RECURSIVE SumRows(_, _)
SumRows(s, k) ==
  IF k = 0 THEN 0 ELSE Len(s[tables_needing_project_id[k]].rows) + SumRows(s, k - 1)

TotalRows(s) == SumRows(s, NReq)

----------------------------------------------------------------------------
\* The store calls the scripts make.

\* SELECT name FROM sqlite_master WHERE type='table'
ListTables(s) == SelectSeq(tables_needing_project_id, LAMBDA t : s[t].exists)

\* PRAGMA table_info(t), column 1 of each row: the column names (none for a missing table).
ColumnNames(s, t) == ColumnSet(s[t])

\* 'project_id' not in cols
NeedsColumn_Always(cols) == TRUE

NeedsColumn(cols) == "project_id" \notin cols

\* ADD COLUMN on one table: the descriptor is appended, every existing row reads
\* the declared default in the new column, nothing else changes.
AddColumn_DropsRows(tbl, col) ==
  [tbl EXCEPT !.cols = Append(@, col), !.rows = <<>>]

AddColumn(tbl, col) ==
  [tbl EXCEPT !.cols = Append(@, col),
              !.rows = [k \in DOMAIN @ |->
                          [c \in DOMAIN @[k] \cup {col.name} |->
                             IF c = col.name THEN col.dflt ELSE @[k][c]]]]

\* ALTER TABLE t ADD COLUMN project_id TEXT DEFAULT 'global'
AlterTable(s, t) == [s EXCEPT ![t] = AddColumn(@, ProjectIdColumn)]

\* The store raises on the ALTER TABLE: the table is one it refuses to alter, it
\* does not exist, or it already has a column of that name.
StoreRejects(s, t, rej) ==
  \/ t \in rej
  \/ ~s[t].exists
  \/ ProjectIdColumn.name \in ColumnNames(s, t)

\* The schema of a store: its tables and their column descriptors, without rows.
Schema(s) == [t \in TableNames |-> [exists |-> s[t].exists, cols |-> s[t].cols]]

----------------------------------------------------------------------------
Pending == [k \in 1..NReq |-> "pending"]

NoPrev == [end |-> "none", added |-> {}, rejected |-> {}]

Init ==
  /\ disk \in {s \in [TableNames -> InitTables] : TotalRows(s) <= MaxRows}
  /\ connStore = disk
  /\ connOpen = FALSE
  /\ rejecting \in {r \in SUBSET {t \in TableNames :
                                    disk[t].exists /\ NeedsColumn(ColumnNames(disk, t))} :
                      Cardinality(r) <= MaxRejecting}
  /\ prog = "none"
  /\ pc = "idle"
  /\ runNo = 0
  /\ tables = <<>>
  /\ i = 1
  /\ outcome = Pending
  /\ alters = <<>>
  /\ startStore = disk
  /\ ended = "none"
  /\ prev = NoPrev

\* No script is running: none has started, or the last one returned, raised or was killed.
Stopped == pc \in {"idle", "done", "raised", "killed"}

Added == {tables_needing_project_id[k] : k \in {j \in 1..NReq : outcome[j] = "added"}}

----------------------------------------------------------------------------
\* migrate_db.py

\* migrate(): connect, cursor, list the tables.
MigrateStart ==
  /\ Stopped
  /\ runNo < MaxRuns
  /\ runNo' = runNo + 1
  /\ prog' = "migrate"
  /\ pc' = "m_loop"
  /\ connOpen' = TRUE
  /\ connStore' = disk
  /\ tables' = ListTables(disk)
  /\ i' = 1
  /\ outcome' = Pending
  /\ alters' = <<>>
  /\ startStore' = disk
  /\ prev' = [end |-> ended, added |-> Added,
              rejected |-> IF ended = "raised" THEN {alters[Len(alters)]} ELSE {}]
  /\ ended' = "running"
  /\ UNCHANGED <<disk, rejecting>>

\* Loop body, else branch of `if table in tables`.
TableAbsent_Creates ==
  /\ prog = "migrate" /\ pc = "m_loop" /\ i <= NReq
  /\ tables_needing_project_id[i] \notin Range(tables)
  /\ outcome' = [outcome EXCEPT ![i] = "table-absent"]
  /\ i' = i + 1
  /\ connStore' = [connStore EXCEPT ![tables_needing_project_id[i]] =
                     [exists |-> TRUE, cols |-> <<IdColumn, ProjectIdColumn>>, rows |-> <<>>]]
  /\ disk' = connStore'
  /\ UNCHANGED <<connOpen, rejecting, prog, pc, runNo, tables, alters,
                 startStore, ended, prev>>

TableAbsent ==
  /\ prog = "migrate" /\ pc = "m_loop" /\ i <= NReq
  /\ tables_needing_project_id[i] \notin Range(tables)
  /\ outcome' = [outcome EXCEPT ![i] = "table-absent"]
  /\ i' = i + 1
  /\ UNCHANGED <<disk, connStore, connOpen, rejecting, prog, pc, runNo, tables,
                 alters, startStore, ended, prev>>

\* Loop body, table present, else branch of `if 'project_id' not in cols`.
ColumnPresent ==
  /\ prog = "migrate" /\ pc = "m_loop" /\ i <= NReq
  /\ tables_needing_project_id[i] \in Range(tables)
  /\ ~NeedsColumn(ColumnNames(connStore, tables_needing_project_id[i]))
  /\ outcome' = [outcome EXCEPT ![i] = "already-present"]
  /\ i' = i + 1
  /\ UNCHANGED <<disk, connStore, connOpen, rejecting, prog, pc, runNo, tables,
                 alters, startStore, ended, prev>>

\* Loop body, table present without the column: the ALTER TABLE is executed and
\* the store accepts it. Whether the driver runs the statement in autocommit mode
\* (durable at once) or inside a transaction (durable at commit) is the driver's
\* choice.
AlterAccepted ==
  /\ prog = "migrate" /\ pc = "m_loop" /\ i <= NReq
  /\ tables_needing_project_id[i] \in Range(tables)
  /\ NeedsColumn(ColumnNames(connStore, tables_needing_project_id[i]))
  /\ ~StoreRejects(connStore, tables_needing_project_id[i], rejecting)
  /\ connStore' = AlterTable(connStore, tables_needing_project_id[i])
  /\ \E durableNow \in BOOLEAN : disk' = IF durableNow THEN connStore' ELSE disk
  /\ alters' = Append(alters, tables_needing_project_id[i])
  /\ pc' = "m_commit"
  /\ UNCHANGED <<connOpen, rejecting, prog, runNo, tables, i, outcome,
                 startStore, ended, prev>>

\* The same statement, and the store raises: the exception leaves migrate(), which
\* has no handler; nothing after the statement runs.
AlterRejected ==
  /\ prog = "migrate" /\ pc = "m_loop" /\ i <= NReq
  /\ tables_needing_project_id[i] \in Range(tables)
  /\ NeedsColumn(ColumnNames(connStore, tables_needing_project_id[i]))
  /\ StoreRejects(connStore, tables_needing_project_id[i], rejecting)
  /\ alters' = Append(alters, tables_needing_project_id[i])
  /\ pc' = "raised"
  /\ ended' = "raised"
  /\ UNCHANGED <<disk, connStore, connOpen, rejecting, prog, runNo, tables, i,
                 outcome, startStore, prev>>

\* conn.commit() and the "Done!" line.
Commit_Skipped ==
  /\ prog = "migrate" /\ pc = "m_commit"
  /\ outcome' = [outcome EXCEPT ![i] = "added"]
  /\ i' = i + 1
  /\ pc' = "m_loop"
  /\ UNCHANGED <<disk, connStore, connOpen, rejecting, prog, runNo, tables,
                 alters, startStore, ended, prev>>

Commit ==
  /\ prog = "migrate" /\ pc = "m_commit"
  /\ disk' = connStore
  /\ outcome' = [outcome EXCEPT ![i] = "added"]
  /\ i' = i + 1
  /\ pc' = "m_loop"
  /\ UNCHANGED <<connStore, connOpen, rejecting, prog, runNo, tables, alters,
                 startStore, ended, prev>>

\* After the loop: conn.close() and the closing line.
MigrateClose ==
  /\ prog = "migrate" /\ pc = "m_loop" /\ i > NReq
  /\ connOpen' = FALSE
  /\ connStore' = disk
  /\ pc' = "done"
  /\ ended' = "done"
  /\ UNCHANGED <<disk, rejecting, prog, runNo, tables, i, outcome, alters,
                 startStore, prev>>

----------------------------------------------------------------------------
\* check_schema.py

\* PRAGMA table_info(t): one (name, type, notnull, default) descriptor per column.
DescribeTable(s, t) == s[t].cols

\* SELECT COUNT(*) FROM t
CountRows(s, t) == Len(s[t].rows)

\* The whole script when memories exists: connect, list the tables, describe each
\* listed table, count the rows of memories, close. Every statement is a read.
CheckSchema_Writes ==
  /\ Stopped
  /\ disk["memories"].exists
  /\ \A k \in 1..Len(ListTables(disk)) : Len(DescribeTable(disk, ListTables(disk)[k])) > 0
  /\ CountRows(disk, "memories") >= 0
  /\ prog' = "check"
  /\ pc' = "done"
  /\ connOpen' = FALSE
  /\ disk' = [disk EXCEPT !["memories"].rows = <<>>]
  /\ connStore' = disk'
  /\ UNCHANGED <<rejecting, runNo, tables, i, outcome, alters, startStore, ended, prev>>

CheckSchema ==
  /\ Stopped
  /\ disk["memories"].exists
  /\ \A k \in 1..Len(ListTables(disk)) : Len(DescribeTable(disk, ListTables(disk)[k])) > 0
  /\ CountRows(disk, "memories") >= 0
  /\ prog' = "check"
  /\ pc' = "done"
  /\ connOpen' = FALSE
  /\ connStore' = disk
  /\ UNCHANGED <<disk, rejecting, runNo, tables, i, outcome, alters, startStore, ended, prev>>

\* The whole script when memories does not exist: the tables are listed and
\* described, the count raises, and the script ends there, before conn.close().
CheckSchemaRaises ==
  /\ Stopped
  /\ ~disk["memories"].exists
  /\ \A k \in 1..Len(ListTables(disk)) : Len(DescribeTable(disk, ListTables(disk)[k])) > 0
  /\ prog' = "check"
  /\ pc' = "raised"
  /\ connOpen' = TRUE
  /\ connStore' = disk
  /\ UNCHANGED <<disk, rejecting, runNo, tables, i, outcome, alters, startStore, ended, prev>>

----------------------------------------------------------------------------
\* The process is interrupted while migrate() runs: what was not committed is
\* rolled back by the store, what was committed stays; the process's locals are
\* gone (what it had printed stays on the terminal).
Kill ==
  /\ prog = "migrate" /\ pc \in {"m_loop", "m_commit"}
  /\ pc' = "killed"
  /\ ended' = "killed"
  /\ connStore' = disk
  /\ connOpen' = FALSE
  /\ tables' = <<>>
  /\ i' = 1
  /\ alters' = <<>>
  /\ UNCHANGED <<disk, rejecting, prog, runNo, outcome, startStore, prev>>

Next ==
  \/ MigrateStart
  \/ TableAbsent
  \/ ColumnPresent
  \/ AlterAccepted
  \/ AlterRejected
  \/ Commit
  \/ MigrateClose
  \/ CheckSchema
  \/ CheckSchemaRaises

Spec == Init /\ [][Next]_vars

NextInterrupt == Next \/ Kill

SpecInterrupt == Init /\ [][NextInterrupt]_vars

----------------------------------------------------------------------------
\* The loop of migrate() as a function of the store and the requirement list: the
\* store it leaves, stopping at the first ALTER TABLE the store rejects.
RECURSIVE MigrateList(_, _, _, _)
MigrateList(s, reqs, k, rej) ==
  IF k > Len(reqs) THEN s
  ELSE IF reqs[k] \notin Range(ListTables(s)) THEN MigrateList(s, reqs, k + 1, rej)
  ELSE IF ~NeedsColumn(ColumnNames(s, reqs[k])) THEN MigrateList(s, reqs, k + 1, rej)
  ELSE IF StoreRejects(s, reqs[k], rej) THEN s
  ELSE MigrateList(AlterTable(s, reqs[k]), reqs, k + 1, rej)

\* The orders in which the five requirements can be listed.
RequirementOrders ==
  {p \in [1..NReq -> TableNames] : \A a, b \in 1..NReq : p[a] = p[b] => a = b}

\* A finished migrate() run left the store MigrateList computes.
MigrateListAgrees ==
  (prog = "migrate" /\ pc \in {"done", "raised"}) =>
     disk = MigrateList(startStore, tables_needing_project_id, 1, rejecting)

----------------------------------------------------------------------------
\* Properties.

Req(k) == tables_needing_project_id[k]

HasProjectId(s, t) == "project_id" \in ColumnNames(s, t)

\* The migrate() run has ended by returning or by an exception leaving it.
RunOver == prog = "migrate" /\ pc \in {"done", "raised"}

\* C1, as claimed: in a migrate() run that follows another, no ALTER TABLE is
\* issued, the schema stays as the first run left it, and only already-present or
\* table-absent is reported, never added.
C1_SecondRunIssuesNoAlter ==
  (prog = "migrate" /\ runNo >= 2) =>
     /\ alters = <<>>
     /\ Schema(disk) = Schema(startStore)
     /\ \A k \in 1..NReq : outcome[k] # "added"
     /\ RunOver => \A k \in 1..NReq : outcome[k] \in {"already-present", "table-absent"}

\* C1, amended: a migrate() run that follows another leaves the store as the first
\* run left it and never reports added; the only ALTER TABLE it can issue repeats
\* the one the store rejected in the first run, and it then ends as the first run
\* did. After a first run that returned, it issues no ALTER TABLE and reports only
\* already-present or table-absent.
C1_Idempotent ==
  (prog = "migrate" /\ runNo >= 2) =>
     /\ disk = startStore
     /\ connStore = startStore
     /\ \A k \in 1..NReq : outcome[k] \in {"pending", "already-present", "table-absent"}
     /\ Range(alters) \subseteq prev.rejected
     /\ prev.end = "done" =>
          /\ alters = <<>>
          /\ pc # "raised"
          /\ pc = "done" => \A k \in 1..NReq : outcome[k] \in {"already-present", "table-absent"}
     /\ prev.end = "raised" => pc # "done"

\* C1 witness: a second run returned after a first run that added a column and
\* skipped an absent table.
C1_Witness ==
  /\ prog = "migrate" /\ runNo = 2 /\ pc = "done"
  /\ prev.end = "done" /\ prev.added # {}
  /\ \E k \in 1..NReq : outcome[k] = "table-absent"
  /\ \E k \in 1..NReq : outcome[k] = "already-present" /\ Req(k) \in prev.added

\* C2, as claimed: when the store rejects the ALTER TABLE of one requirement, that
\* requirement is reported failed (here: by the exception itself) and every later
\* requirement has been attempted when the run ends.
C2_FailureIsolated ==
  (prog = "migrate" /\ pc = "raised") =>
     /\ outcome[i] = "failed" \/ Req(i) = alters[Len(alters)]
     /\ \A j \in 1..NReq : j > i => outcome[j] # "pending"

\* C3, as claimed: no run of either script ends with its connection still open.
C3_ConnectionClosed ==
  pc \in {"done", "raised"} => ~connOpen

Keeps(s, s0, t) ==
  /\ Len(s[t].cols) >= Len(s0[t].cols)
  /\ \A k \in 1..Len(s0[t].cols) : s[t].cols[k] = s0[t].cols[k]
  /\ Len(s[t].rows) = Len(s0[t].rows)

\* C5: in every state of a migrate() run, every table has every column it had when
\* the run started, with the same name, type, nullability and default, and as many
\* rows as it had then.
C5_Additive ==
  prog = "migrate" =>
     \A t \in TableNames : Keeps(disk, startStore, t) /\ Keeps(connStore, startStore, t)

\* C5 witness: a run returned after adding the column to a table that holds a row.
C5_Witness ==
  /\ prog = "migrate" /\ pc = "done"
  /\ \E k \in 1..NReq : /\ outcome[k] = "added"
                        /\ Len(startStore[Req(k)].rows) > 0
                        /\ Len(disk[Req(k)].cols) > Len(startStore[Req(k)].cols)

\* C6: a column for which the run reported added is in the durable store, and so
\* is every column altered before the requirement now at hand; a run that follows
\* an interrupted one reports already-present for what the interrupted run had
\* added, and adds a column only where the durable store lacked it.
C6_CommittedOneByOne ==
  /\ \A k \in 1..NReq : outcome[k] = "added" => HasProjectId(disk, Req(k))
  /\ prog = "migrate" =>
        \A k \in 1..Len(alters) :
           (k < Len(alters) \/ pc \notin {"m_commit", "raised"}) => HasProjectId(disk, alters[k])
  /\ (prog = "migrate" /\ prev.end = "killed") =>
        \A k \in 1..NReq :
           /\ Req(k) \in prev.added =>
                /\ outcome[k] \in {"pending", "already-present"}
                /\ (pc \in {"m_loop", "m_commit", "raised", "done"} /\ k < i) =>
                      outcome[k] = "already-present"
           /\ outcome[k] = "added" => ~HasProjectId(startStore, Req(k))

\* C6 witness: after a run that was interrupted having added a column, a fresh run
\* returned, reported that column already-present and added another.
C6_Witness ==
  /\ prog = "migrate" /\ pc = "done" /\ prev.end = "killed"
  /\ \E k \in 1..NReq : Req(k) \in prev.added /\ outcome[k] = "already-present"
  /\ \E k \in 1..NReq : outcome[k] = "added"

\* The tables for which this run's ALTER TABLE was accepted.
Altered ==
  {alters[k] : k \in {j \in 1..Len(alters) : j < Len(alters) \/ pc # "raised"}}

\* C7: a table migrate() altered has column project_id with type TEXT and default
\* 'global', and every one of its rows, all of which existed before, reads
\* project_id = 'global'; the same holds durably once added is reported.
C7_DefaultPropagated ==
  prog = "migrate" =>
     /\ \A t \in Altered :
          /\ \E c \in Range(connStore[t].cols) :
                c.name = "project_id" /\ c.type = "TEXT" /\ c.dflt = "global"
          /\ \A r \in 1..Len(connStore[t].rows) : connStore[t].rows[r]["project_id"] = "global"
          /\ Len(connStore[t].rows) = Len(startStore[t].rows)
     /\ \A k \in 1..NReq : outcome[k] = "added" =>
          /\ \E c \in Range(disk[Req(k)].cols) :
                c.name = "project_id" /\ c.type = "TEXT" /\ c.dflt = "global"
          /\ \A r \in 1..Len(disk[Req(k)].rows) : disk[Req(k)].rows[r]["project_id"] = "global"

\* C7 witness: added was reported for a table that held a row before the run.
C7_Witness ==
  /\ prog = "migrate"
  /\ \E k \in 1..NReq : /\ outcome[k] = "added"
                        /\ ~HasProjectId(startStore, Req(k))
                        /\ Len(startStore[Req(k)].rows) > 0
                        /\ Len(disk[Req(k)].rows) > 0

\* C8, as claimed: from a starting store, the loop run over any permutation of the
\* requirement list leaves the schema it leaves when run over the list as written
\* (so any two permutations leave the same schema).
C8_OrderIndependent ==
  (prog = "none" /\ pc = "idle") =>
     \A p \in RequirementOrders :
        Schema(MigrateList(disk, p, 1, rejecting))
          = Schema(MigrateList(disk, tables_needing_project_id, 1, rejecting))

\* C9: a run of the introspection script, returning or raising, leaves the durable
\* store (tables, columns, rows) as it was.
C9_IntrospectionReadOnly ==
  [][prog' = "check" => disk' = disk]_vars

\* C9 witness: the introspection script returned on a store whose memories table
\* holds a row and has been migrated.
C9_Witness ==
  /\ prog = "check" /\ pc = "done"
  /\ Len(disk["memories"].rows) > 0
  /\ "memories" \in Added

\* What the rule of C10 gives for requirement k, from the store at the start of the run.
Expected(k) ==
  IF ~startStore[Req(k)].exists THEN {"table-absent"}
  ELSE IF HasProjectId(startStore, Req(k)) THEN {"already-present"}
  ELSE {"added", "failed"}

\* C10, as claimed: an outcome, once given, is the one the rule gives (so it does
\* not change); added goes with exactly one ALTER TABLE for that table and the
\* other outcomes with none; and when the run ends no requirement is pending.
C10_EveryRequirementDecided ==
  prog = "migrate" =>
     /\ \A k \in 1..NReq : outcome[k] # "pending" =>
          /\ outcome[k] \in Expected(k)
          /\ Cardinality({j \in 1..Len(alters) : alters[j] = Req(k)})
               = IF outcome[k] \in {"added", "failed"} THEN 1 ELSE 0
     /\ RunOver => \A k \in 1..NReq : outcome[k] # "pending"

====
